---- MODULE Spec2Model ----
(***************************************************************************)
(* Model of ai_diffusion/cloud_client.py: the CloudClient job engine.      *)
(*                                                                         *)
(* CloudClient runs on one asyncio event loop.  A coroutine runs without   *)
(* interruption between two points where it suspends, so every action      *)
(* below is the code between two suspension points of listen() (a network  *)
(* await, the poll sleep, the wait on an empty queue, a yield that hands a *)
(* message to the consumer), or one whole call of enqueue, clear_queue or  *)
(* interrupt.                                                              *)
(*                                                                         *)
(* Every message of listen() carries the local id of the job that is       *)
(* current when it is yielded, so the messages of one job are one piece of *)
(* the stream of messages.  log, polled, assigned, cancelPosts, raised,    *)
(* cost and requests record that piece: they start empty with every        *)
(* iteration of the loop.                                                  *)
(*                                                                         *)
(* Spec and FairSpec are the job engine of a connected client.             *)
(* SessionSpec is sign_in() and authenticate() on a client whose listen()  *)
(* is not running: they share the user with the engine and nothing else.   *)
(***************************************************************************)
EXTENDS Integers, Sequences, FiniteSets, TLC

\* ------------------------------------------------------------------ bounds
MaxJobs == 2
MaxClears == 1
MaxInterrupts == 1
MaxPolls == 2
MaxFailures == 1

\* --------------------------------------------------------------- constants
BatchLimit == 8
DefaultProgress == 9
WorkerId == 1
RemoteBase == 10

VARIABLES
    queues,         \* the asyncio.Queue objects in use: object -> items
    queue,          \* self._queue: the queue object the client refers to now
    nextId,         \* supply of uuid4 local ids
    pc,             \* where listen() is suspended
    waitq,          \* the queue object whose get() listen() is suspended in
    current,        \* self._current_job
    response,       \* the local variable response of _process_job
    user,           \* self._user
    log,            \* the messages listen() yielded in this iteration of its loop
    started,        \* history: local ids in the order they became current
    done,           \* history: local ids whose loop iteration has ended
    enqueuedIn,     \* history: local id -> queue object it was put in
    polled,         \* history: the status-poll responses for the current job
    netFailed,      \* history: local ids for which a network call raised
    cancelPosts,    \* history: remote ids of the cancel requests posted for the current job
    interruptCalls, \* history: number of interrupt() calls
    assigned,       \* history: the remote id the service gave the current job
    raised,         \* history: the NetworkError raised for the current job
    cost,           \* the local variable cost of _process_job (line 145)
    requests,       \* history: the requests issued for the current job
    npolls,         \* number of non-terminal poll responses the service gave
    token,          \* self._token
    spc,            \* where sign_in() or authenticate() is suspended
    call,           \* history: the call in progress, with the token and user it found
    auth_confirm,   \* the local variable auth_confirm of sign_in
    elapsed,        \* seconds that have passed since line 73 of sign_in
    shift,          \* seconds the local clock was set forward since line 73
    yielded,        \* history: what the sign_in() in progress has yielded
    outcome,        \* history: how the last sign_in() or authenticate() ended
    request         \* history: the last request of sign_in() or authenticate()

\* the variables of sign_in() and authenticate()
svars ==
    << token, spc, call, auth_confirm, elapsed, shift, yielded, outcome,
       request >>

\* the variables of the job engine, but for the user
evars ==
    << queues, queue, nextId, pc, waitq, current, response, log, started,
       done, enqueuedIn, polled, netFailed, cancelPosts,
       interruptCalls, assigned, raised, cost, requests, npolls >>

vars ==
    << queues, queue, nextId, pc, waitq, current, response, user, log, started,
       done, enqueuedIn, polled, netFailed, cancelPosts,
       interruptCalls, assigned, raised, cost, requests, npolls, svars >>

\* -------------------------------------------------------------- data model
NoWork == [batch_count |-> 0, size |-> 0, offsets |-> << >>]

\* JobInfo with remote_id = None and worker_id = None written as 0
JobInfo(local_id, work) ==
    [local_id |-> local_id, work |-> work, remote_id |-> 0, worker_id |-> 0]

\* self._current_job = None
NoJob == JobInfo(0, NoWork)

\* inputs of enqueue: a requested batch count, and image_data: a blob of
\* size bytes and its offsets.  The sizes are the two next to the limit.
WorkInputs ==
    { [batch_count |-> 12, size |-> 2624997, offsets |-> << 0 >>],
      [batch_count |-> 4, size |-> 2624998, offsets |-> << 0, 1312499 >>] }

\* the limit of _send_images for the base64 size of a blob sent inline
InlineLimit == 3500000

\* mutant of base64_size: the quotient is rounded down
base64_size_Floor(size) == (size \div 3) * 4

\* _base64_size: math.ceil(size / 3) * 4
base64_size(size) ==
    (IF size % 3 = 0 THEN size \div 3 ELSE size \div 3 + 1) * 4

\* a request to the service or to the transfer store
Request(op, arg) == [op |-> op, arg |-> arg]

\* the response to upload: the target of the PUT and the object reference
UploadInfo == [url |-> "upload_url", object |-> "upload_object"]

\* image_data of the inputs of generate, as _send_images leaves it
InlineData(work) == [form |-> "base64", data |-> work.size,
                     offsets |-> work.offsets]

S3Data(work, object) == [form |-> "s3_object", data |-> object,
                         offsets |-> work.offsets]

Min(a, b) == IF a < b THEN a ELSE b

Max(a, b) == IF a > b THEN a ELSE b

NoUser == [present |-> FALSE, credits |-> 0, images_generated |-> 0]

ClientMessage(event, job_id, progress, error) ==
    [event |-> event, job_id |-> job_id, progress |-> progress, error |-> error]

ActiveStatus == {"IN_QUEUE", "IN_PROGRESS"}

TerminalStatus == {"COMPLETED", "FAILED", "CANCELLED", "TIMED_OUT", "UNKNOWN"}

NoProgress == -1

TerminalEvents == {"finished", "error", "interrupted"}

NoQueue == -1

\* mutant of NewQueue: a queue that holds one item, so put() can have to wait
NewQueue_Bounded == [items |-> << >>, maxsize |-> 1]

\* asyncio.Queue(): no maxsize, so put() never has to wait
NewQueue == [items |-> << >>, maxsize |-> 0]

\* asyncio.Queue.full()
Full(q) == q.maxsize > 0 /\ Len(q.items) >= q.maxsize

\* the item goes to the start
PutFront(q, job) == [q EXCEPT !.items = << job >> \o @]

\* asyncio.Queue.put_nowait(): the item goes to the end
Put(q, job) == [q EXCEPT !.items = Append(@, job)]

\* asyncio.Queue.get_nowait(): the item at the start leaves
Take(q) == [q EXCEPT !.items = Tail(@)]

ErrMsg(text) == [text |-> text, cost |-> 0, credits |-> 0]

NoError == ErrMsg("")

\* ---------------------------------------------------- what the service says
ProgressVals == {30}

\* output["images"] of a COMPLETED response: where the result is, and the
\* offsets field (absent, an empty list, or a list with offsets in it)
Images(form, offsets) == [form |-> form, offsets |-> offsets]

NoImages == Images("none", "absent")

ImageForms == {"url", "base64"}

OffsetForms == {"absent", "empty", "list"}

ResultImages ==
    {Images(f, o) : f \in ImageForms, o \in OffsetForms}
    \cup {Images("none", "list")}

\* the error field of a FAILED response: the string, what json.loads makes of
\* it, and the error_message of the object when it has one
ErrorField(raw, json, error_message) ==
    [raw |-> raw, json |-> json, error_message |-> error_message]

NoErrorField == ErrorField("", "absent", "")

ErrorFields ==
    { NoErrorField,
      ErrorField("{\"error_message\":\"x\",\"error_traceback\":\"y\"}",
                 "object_with_message", "x"),
      ErrorField("{\"detail\":\"d\"}", "object", ""),
      ErrorField("42", "number", ""),
      ErrorField("boom", "invalid", "") }

NoSnapshot == [present |-> FALSE, credits |-> 0, images_generated |-> 0]

\* the "user" part of the response to generate
UserSnapshots ==
    { NoSnapshot,
      [present |-> TRUE, credits |-> 1, images_generated |-> 1],
      [present |-> TRUE, credits |-> 3, images_generated |-> 1] }

Response(status, progress, images, error, snapshot) ==
    [status |-> status, progress |-> progress, images |-> images,
     error |-> error, user |-> snapshot]

NoResponse == Response("NONE", NoProgress, NoImages, NoErrorField, NoSnapshot)

\* the responses to status/{worker_id}/{remote_id}
StatusResponses ==
    {Response("IN_QUEUE", NoProgress, NoImages, NoErrorField, NoSnapshot)}
    \cup {Response("IN_PROGRESS", p, NoImages, NoErrorField, NoSnapshot) :
             p \in ProgressVals \cup {NoProgress}}
    \cup {Response("COMPLETED", NoProgress, i, NoErrorField, NoSnapshot) :
             i \in ResultImages}
    \cup {Response("FAILED", NoProgress, NoImages, e, NoSnapshot) :
             e \in ErrorFields}
    \cup {Response(st, NoProgress, NoImages, NoErrorField, NoSnapshot) :
             st \in TerminalStatus \ {"COMPLETED", "FAILED"}}

\* the responses to generate: a status and the user snapshot
GenerateResponses ==
    {[r EXCEPT !.user = u] :
        r \in {x \in StatusResponses : x.progress = NoProgress},
        u \in UserSnapshots}

InitialCredits == 2

NoData == [present |-> FALSE, has_credits |-> FALSE, credits |-> 0,
           has_cost |-> FALSE, cost |-> 0]

\* the NetworkError values a network call can raise: a plain failure, 402
\* with credits and cost, and 402 with one of the two missing
NetworkErrors ==
    { [status |-> 500, message |-> "network", data |-> NoData],
      [status |-> 402, message |-> "network",
       data |-> [present |-> TRUE, has_credits |-> TRUE, credits |-> 1,
                 has_cost |-> TRUE, cost |-> 3]],
      [status |-> 402, message |-> "network",
       data |-> [present |-> TRUE, has_credits |-> TRUE, credits |-> 1,
                 has_cost |-> FALSE, cost |-> 0]],
      [status |-> 402, message |-> "network",
       data |-> [present |-> TRUE, has_credits |-> FALSE, credits |-> 0,
                 has_cost |-> TRUE, cost |-> 3]] }

\* no NetworkError was raised
NoNetworkError == [status |-> 0, message |-> "", data |-> NoData]

\* cost has no value yet
NoCost == -1

\* ---------------------------------------------------------- pure functions
\* mutant of update_user: the cost is the difference, negative or not
update_user_Difference(u, snapshot) ==
    IF snapshot.present
    THEN [cost |-> u.credits - snapshot.credits,
          user |-> [u EXCEPT !.images_generated = snapshot.images_generated,
                             !.credits = snapshot.credits]]
    ELSE [cost |-> 0, user |-> u]

\* _update_user: the new user and the cost
update_user(u, snapshot) ==
    IF snapshot.present
    THEN [cost |-> Max(0, u.credits - snapshot.credits),
          user |-> [u EXCEPT !.images_generated = snapshot.images_generated,
                             !.credits = snapshot.credits]]
    ELSE [cost |-> 0, user |-> u]

\* mutant of process_http_error: the balance of the 402 data is not applied
process_http_error_KeepsCredits(u, e) ==
    IF e.status = 402 /\ e.data.present /\ u.present
          /\ e.data.has_credits /\ e.data.has_cost
    THEN [user |-> u,
          message |-> [text |-> "Insufficient funds", cost |-> e.data.cost,
                       credits |-> u.credits]]
    ELSE [user |-> u, message |-> ErrMsg(e.message)]

\* _process_http_error: the new user and the message.  The assignment to
\* user.credits comes first, so it stays when reading e.data["cost"] raises.
process_http_error(u, e) ==
    IF e.status = 402 /\ e.data.present /\ u.present
    THEN IF ~e.data.has_credits
         THEN [user |-> u, message |-> ErrMsg(e.message)]
         ELSE IF ~e.data.has_cost
         THEN [user |-> [u EXCEPT !.credits = e.data.credits],
               message |-> ErrMsg(e.message)]
         ELSE [user |-> [u EXCEPT !.credits = e.data.credits],
               message |-> [text |-> "Insufficient funds", cost |-> e.data.cost,
                            credits |-> e.data.credits]]
    ELSE [user |-> u, message |-> ErrMsg(e.message)]

\* the error_args object itself, which _extract_error returns as the message
\* when the object has no error_message
ParsedObject == "<error_args>"

\* mutant of extract_error: a parse failure is not caught, and the message of
\* the job is the one of the unhandled exception
extract_error_Raises(resp, job_id) ==
    IF resp.error.json = "object_with_message"
    THEN resp.error.error_message
    ELSE "exception"

\* _extract_error: err_msg.  An absent error field gives the default, a JSON
\* string; json.loads of a string or a number has no get(), which raises as
\* an unparsable string does, and the message is then str(error).
extract_error(resp, job_id) ==
    LET error == IF resp.error.json = "absent"
                 THEN ErrorField("\"Job failed (unknown error)\"", "string", "")
                 ELSE resp.error
    IN  IF error.json = "object_with_message" THEN error.error_message
        ELSE IF error.json = "object" THEN ParsedObject
        ELSE error.raw

\* ------------------------------------------- sign_in and authenticate data
\* the bearer tokens of the service
Tokens == {"t1", "t2"}

\* the threshold of line 75, the sleep of line 77, and the seconds of a day
SignInTimeout == 300
SleepSeconds == 2
DaySeconds == 86400

\* timedelta.seconds: the seconds of the difference within its day; the days
\* are another field, and a negative difference has days < 0 and seconds >= 0
seconds(delta) == delta % DaySeconds

\* the seconds a post of auth/confirm takes to return
PostDurations == {0, 150}

\* what datetime.now() can gain on the time that passes while sign_in()
\* sleeps: nothing, or minus an hour when daylight saving time ends
ClockSteps == {0, -3600}

\* the url sign_in() yields (line 68-70)
SignInUrl == "sign_in_url"

\* the message of line 98
LoginIncorrect == "The login data is incorrect, please sign in again."

\* the response to auth/confirm
Confirm(has_status, status, tok) ==
    [has_status |-> has_status, status |-> status, token |-> tok]

NoConfirm == Confirm(FALSE, "", "")

ConfirmResponses ==
    {Confirm(TRUE, "not-found", ""), Confirm(TRUE, "expired", ""),
     Confirm(FALSE, "", "")}
    \cup {Confirm(TRUE, "authorized", t) : t \in Tokens}

\* the response to the get of "user"
UserPayloads ==
    { [credits |-> InitialCredits, images_generated |-> 0],
      [credits |-> 5, images_generated |-> 7] }

\* the NetworkError values the requests of sign_in and authenticate can raise
AuthErrors ==
    { [status |-> 401, message |-> "network", data |-> NoData],
      [status |-> 500, message |-> "network", data |-> NoData] }

\* how a call ended: what it returned or yielded last, or what it raised
Outcome(kind, type, code, text) ==
    [kind |-> kind, type |-> type, code |-> code, text |-> text]

NoOutcome == Outcome("none", "", 0, "")

Returned(type, text) == Outcome("returned", type, 0, text)

Raised(type, code, text) == Outcome("raised", type, code, text)

\* the call in progress and the token and user it found when it began
Call(op, arg, token0, user0) ==
    [op |-> op, arg |-> arg, token0 |-> token0, user0 |-> user0]

NoCall == Call("", "", "", NoUser)

\* a request of _get or _post, with the bearer it carries (line 57, 60)
AuthRequest(op, bearer) == [op |-> op, bearer |-> bearer]

NoRequest == AuthRequest("", "")

\* -------------------------------------------------------------------- Init
\* The state after connect(): the constructor has made the queue, and
\* authenticate() has set the user.  A client made by the constructor alone
\* has no user.
Init ==
    /\ queues = (0 :> NewQueue)
    /\ queue = 0
    /\ nextId = 1
    /\ pc = "init"
    /\ waitq = NoQueue
    /\ current = NoJob
    /\ response = NoResponse
    /\ user \in {NoUser, [present |-> TRUE, credits |-> InitialCredits,
                          images_generated |-> 0]}
    /\ log = << >>
    /\ started = << >>
    /\ done = {}
    /\ enqueuedIn = [j \in 1..MaxJobs |-> NoQueue]
    /\ polled = << >>
    /\ netFailed = {}
    /\ cancelPosts = << >>
    /\ interruptCalls = 0
    /\ assigned = 0
    /\ raised = NoNetworkError
    /\ cost = NoCost
    /\ requests = << >>
    /\ npolls = 0
    /\ token = IF user.present THEN "t1" ELSE ""
    /\ spc = "idle"
    /\ call = NoCall
    /\ auth_confirm = NoConfirm
    /\ elapsed = 0
    /\ shift = 0
    /\ yielded = << >>
    /\ outcome = NoOutcome
    /\ request = NoRequest

\* ------------------------------------------------------ the caller's calls
\* mutant of enqueue: front puts the job at the start of the queue
enqueue_Front(work, front) ==
    /\ nextId <= MaxJobs
    /\ ~Full(queues[queue])
    /\ LET clamped == [work EXCEPT !.batch_count = Min(@, BatchLimit)]
           job == JobInfo(nextId, clamped)
       IN  queues' = [queues EXCEPT ![queue] =
                         IF front THEN PutFront(@, job) ELSE Put(@, job)]
    /\ nextId' = nextId + 1
    /\ enqueuedIn' = [enqueuedIn EXCEPT ![nextId] = queue]
    /\ UNCHANGED << queue, pc, waitq, current, response, user, log, started,
                    done, polled, netFailed, cancelPosts, interruptCalls,
                    assigned, raised, cost, requests, npolls, svars >>

\* enqueue(work, front): front is not read
enqueue(work, front) ==
    /\ nextId <= MaxJobs
    /\ ~Full(queues[queue])
    /\ LET clamped == [work EXCEPT !.batch_count = Min(@, BatchLimit)]
           job == JobInfo(nextId, clamped)
       IN  queues' = [queues EXCEPT ![queue] = Put(@, job)]
    /\ nextId' = nextId + 1
    /\ enqueuedIn' = [enqueuedIn EXCEPT ![nextId] = queue]
    /\ UNCHANGED << queue, pc, waitq, current, response, user, log, started,
                    done, polled, netFailed, cancelPosts, interruptCalls,
                    assigned, raised, cost, requests, npolls, svars >>

\* clear_queue(): self._queue refers to a new queue object.  A get() that is
\* suspended in an older object stays suspended in that object, which stays
\* as it is; an object that nothing refers to any more is gone.
clear_queue ==
    /\ queue < MaxClears
    /\ queue' = queue + 1
    /\ queues' = [q \in {waitq, queue + 1} \ {NoQueue} |->
                     IF q = queue + 1 THEN NewQueue ELSE queues[q]]
    /\ UNCHANGED << nextId, svars, pc, waitq, current, response, user, log,
                    started, done, enqueuedIn, polled, netFailed, cancelPosts,
                    interruptCalls, assigned, raised, cost, requests, npolls >>

\* mutant of interrupt: posts for any current job, remote id or not
interrupt_WithoutRemoteId ==
    /\ interruptCalls < MaxInterrupts
    /\ cancelPosts' =
          IF current /= NoJob THEN Append(cancelPosts, current.remote_id)
          ELSE cancelPosts
    /\ interruptCalls' = interruptCalls + 1
    /\ UNCHANGED << queues, queue, nextId, svars, pc, waitq, current, response,
                    user, log, started, done, enqueuedIn, polled, netFailed,
                    assigned, raised, cost, requests, npolls >>

\* mutant of interrupt: it also ends the current job locally, with an
\* interrupted message and no more polls
interrupt_AbortsLocally ==
    /\ interruptCalls < MaxInterrupts
    /\ LET send == current /= NoJob /\ current.remote_id /= 0
       IN  /\ cancelPosts' =
                IF send THEN Append(cancelPosts, current.remote_id)
                ELSE cancelPosts
           /\ log' = IF send
                     THEN Append(log, ClientMessage("interrupted",
                                         current.local_id, 0, NoError))
                     ELSE log
           /\ pc' = IF send THEN "yield_terminal" ELSE pc
    /\ interruptCalls' = interruptCalls + 1
    /\ UNCHANGED << queues, queue, nextId, svars, waitq, current, response,
                    user, started, done, enqueuedIn, polled, netFailed,
                    assigned, raised, cost, requests, npolls >>

\* interrupt(): posts cancel/{remote_id} when there is a current job with a
\* remote id
interrupt ==
    /\ interruptCalls < MaxInterrupts
    /\ LET send == current /= NoJob /\ current.remote_id /= 0
       IN  /\ cancelPosts' =
                IF send THEN Append(cancelPosts, current.remote_id)
                ELSE cancelPosts
           /\ interruptCalls' = interruptCalls + 1
    /\ UNCHANGED << queues, queue, nextId, svars, pc, waitq, current, response,
                    user, log, started, done, enqueuedIn, polled, netFailed,
                    assigned, raised, cost, requests, npolls >>

\* ---------------------------------------------------------------- listen()
\* _process_job up to its first await: ensure(self.user), then _send_images,
\* which awaits the upload only for a blob whose base64 size reaches the
\* limit, then the post of generate.  ensure() raises when there is no user
\* (lines 127-130).
BeginJob(job, qs, dn) ==
    /\ queues' = qs
    /\ waitq' = NoQueue
    /\ current' = job
    /\ started' = Append(started, job.local_id)
    /\ done' = dn
    /\ response' = NoResponse
    /\ polled' = << >>
    /\ assigned' = 0
    /\ raised' = NoNetworkError
    /\ cost' = NoCost
    /\ cancelPosts' = << >>
    /\ IF ~user.present
       THEN /\ log' = << ClientMessage("error", job.local_id, 0,
                                       ErrMsg("exception")) >>
            /\ requests' = << >>
            /\ pc' = "yield_error"
       ELSE /\ log' = << >>
            /\ IF base64_size(job.work.size) < InlineLimit
               THEN /\ requests' = << Request("generate", InlineData(job.work)) >>
                    /\ pc' = "generate"
               ELSE /\ requests' = << Request("upload", "") >>
                    /\ pc' = "upload_get"

\* mutant of NextIteration: no finally, the slot keeps the job that ended
NextIteration_KeepsCurrent(dn) ==
    IF queues[queue].items /= << >>
    THEN BeginJob(Head(queues[queue].items),
                  [queues EXCEPT ![queue] = Take(@)], dn)
    ELSE /\ pc' = "wait"
         /\ waitq' = queue
         /\ current' = current
         /\ response' = NoResponse
         /\ log' = << >>
         /\ polled' = << >>
         /\ assigned' = 0
         /\ raised' = NoNetworkError
         /\ cost' = NoCost
         /\ requests' = << >>
         /\ cancelPosts' = << >>
         /\ done' = dn
         /\ UNCHANGED << queues, started >>

\* finally: self._current_job = None, then the next self._queue.get(): it
\* returns at once when the queue has an item and suspends when it has none
NextIteration(dn) ==
    IF queues[queue].items /= << >>
    THEN BeginJob(Head(queues[queue].items),
                  [queues EXCEPT ![queue] = Take(@)], dn)
    ELSE /\ pc' = "wait"
         /\ waitq' = queue
         /\ current' = NoJob
         /\ response' = NoResponse
         /\ log' = << >>
         /\ polled' = << >>
         /\ assigned' = 0
         /\ raised' = NoNetworkError
         /\ cost' = NoCost
         /\ requests' = << >>
         /\ cancelPosts' = << >>
         /\ done' = dn
         /\ UNCHANGED << queues, started >>

\* listen() is started: it yields connected
Listen ==
    /\ pc = "init"
    /\ pc' = "connected"
    /\ log' = Append(log, ClientMessage("connected", 0, 0, NoError))
    /\ UNCHANGED << queues, queue, nextId, svars, waitq, current, response,
                    user, started, done, enqueuedIn, polled, netFailed,
                    cancelPosts, interruptCalls, assigned, raised, cost,
                    requests, npolls >>

\* the consumer asks for the next message after connected
ResumeConnected ==
    /\ pc = "connected"
    /\ NextIteration(done)
    /\ UNCHANGED << queue, nextId, svars, user, enqueuedIn, netFailed,
                    interruptCalls, npolls >>

\* the get() suspended in queue object waitq returns an item
Dequeue ==
    /\ pc = "wait"
    /\ queues[waitq].items /= << >>
    /\ BeginJob(Head(queues[waitq].items),
                [q \in {queue} |-> IF q = waitq THEN Take(queues[q])
                                   ELSE queues[q]], done)
    /\ UNCHANGED << queue, nextId, svars, user, enqueuedIn, netFailed,
                    interruptCalls, npolls >>

\* mutant of NetworkFailure: the handler reports the error and leaves the loop
NetworkFailure_Breaks(e) ==
    LET r == process_http_error(user, e)
    IN  /\ Cardinality(netFailed) < MaxFailures
        /\ user' = r.user
        /\ log' = Append(log, ClientMessage("error", current.local_id, 0,
                                            r.message))
        /\ netFailed' = netFailed \cup {current.local_id}
        /\ raised' = e
        /\ pc' = "stopped"

\* except NetworkError (lines 122-126): the error message for the current job
NetworkFailure(e) ==
    LET r == process_http_error(user, e)
    IN  /\ Cardinality(netFailed) < MaxFailures
        /\ user' = r.user
        /\ log' = Append(log, ClientMessage("error", current.local_id, 0,
                                            r.message))
        /\ netFailed' = netFailed \cup {current.local_id}
        /\ raised' = e
        /\ pc' = "yield_error"

\* await self._get("upload"), then the PUT of the raw bytes is issued
UploadGet ==
    /\ pc = "upload_get"
    /\ \/ /\ pc' = "upload_put"
          /\ requests' = Append(requests,
                Request("put", [url |-> UploadInfo.url,
                                data |-> current.work.size]))
          /\ UNCHANGED << user, log, netFailed, raised >>
       \/ /\ \E e \in NetworkErrors : NetworkFailure(e)
          /\ UNCHANGED requests
    /\ UNCHANGED << queues, queue, nextId, svars, waitq, current, response,
                    started, done, enqueuedIn, polled, cancelPosts,
                    interruptCalls, assigned, cost, npolls >>

\* await self._requests.put(url, data), then the post of generate is issued
UploadPut ==
    /\ pc = "upload_put"
    /\ \/ /\ pc' = "generate"
          /\ requests' = Append(requests,
                Request("generate", S3Data(current.work, UploadInfo.object)))
          /\ UNCHANGED << user, log, netFailed, raised >>
       \/ /\ \E e \in NetworkErrors : NetworkFailure(e)
          /\ UNCHANGED requests
    /\ UNCHANGED << queues, queue, nextId, svars, waitq, current, response,
                    started, done, enqueuedIn, polled, cancelPosts,
                    interruptCalls, assigned, cost, npolls >>

\* mutant of Generate: progress(0) is yielded before the response is read,
\* so before the remote id is assigned and the quota is updated
Generate_YieldsFirst ==
    /\ pc = "generate"
    /\ \/ \E r \in GenerateResponses :
            /\ response' = r
            /\ log' = Append(log, ClientMessage("progress", current.local_id, 0,
                                                NoError))
            /\ pc' = "yield_progress0"
            /\ UNCHANGED << current, assigned, user, cost, netFailed, raised >>
       \/ /\ \E e \in NetworkErrors : NetworkFailure(e)
          /\ UNCHANGED << current, assigned, cost, response >>
    /\ UNCHANGED << queues, queue, nextId, svars, waitq, started, done,
                    enqueuedIn, polled, cancelPosts, interruptCalls, requests,
                    npolls >>

\* await self._post("generate", data) and lines 143-147
Generate ==
    /\ pc = "generate"
    /\ \/ \E r \in GenerateResponses :
            /\ current' = [current EXCEPT
                              !.remote_id = RemoteBase + current.local_id,
                              !.worker_id = WorkerId]
            /\ assigned' = RemoteBase + current.local_id
            /\ user' = update_user(user, r.user).user
            /\ cost' = update_user(user, r.user).cost
            /\ response' = r
            /\ log' = Append(log, ClientMessage("progress", current.local_id, 0,
                                                NoError))
            /\ pc' = "yield_progress0"
            /\ UNCHANGED << netFailed, raised >>
       \/ /\ \E e \in NetworkErrors : NetworkFailure(e)
          /\ UNCHANGED << current, assigned, cost, response >>
    /\ UNCHANGED << queues, queue, nextId, svars, waitq, started, done,
                    enqueuedIn, polled, cancelPosts, interruptCalls, requests,
                    npolls >>

\* a yield inside _process_job: the message goes out, the rest stays
Yield(msg, at) ==
    /\ log' = Append(log, msg)
    /\ pc' = at
    /\ UNCHANGED << queues, waitq, current, started, done, response, polled,
                    assigned, raised, cost, requests, cancelPosts >>

\* mutant of Resolve: receive_images looks at the url before the offsets, so
\* the download is made for a result without offsets
Resolve_DownloadsFirst ==
    IF response.status = "COMPLETED"
    THEN IF response.images.form = "url"
         THEN /\ pc' = "download"
              /\ requests' = Append(requests, Request("download", "result_url"))
              /\ UNCHANGED << queues, waitq, current, started, done, response,
                              log, polled, assigned, raised, cost,
                              cancelPosts >>
         ELSE IF response.images.offsets /= "list"
         THEN Yield(ClientMessage("error", current.local_id, 0,
                                  ErrMsg("invalid offsets")), "yield_error")
         ELSE IF response.images.form = "base64"
         THEN Yield(ClientMessage("finished", current.local_id, 100, NoError),
                    "yield_terminal")
         ELSE Yield(ClientMessage("error", current.local_id, 0,
                                  ErrMsg("No result images found")),
                    "yield_error")
    ELSE IF response.status = "FAILED"
    THEN Yield(ClientMessage("error", current.local_id, 0,
                             ErrMsg(extract_error(response, current.remote_id))),
               "yield_terminal")
    ELSE IF response.status = "CANCELLED"
    THEN Yield(ClientMessage("interrupted", current.local_id, 0, NoError),
               "yield_terminal")
    ELSE IF response.status = "TIMED_OUT"
    THEN Yield(ClientMessage("error", current.local_id, 0,
                             ErrMsg("job timed out")), "yield_terminal")
    ELSE NextIteration(done \cup {current.local_id})

\* lines 162-182, with receive_images (lines 219-230) up to its await.  The
\* ValueError of receive_images is caught at lines 127-130, which yield the
\* error message of the job.
Resolve ==
    IF response.status = "COMPLETED"
    THEN IF response.images.offsets /= "list"
         THEN Yield(ClientMessage("error", current.local_id, 0,
                                  ErrMsg("invalid offsets")), "yield_error")
         ELSE IF response.images.form = "url"
         THEN /\ pc' = "download"
              /\ requests' = Append(requests, Request("download", "result_url"))
              /\ UNCHANGED << queues, waitq, current, started, done, response,
                              log, polled, assigned, raised, cost,
                              cancelPosts >>
         ELSE IF response.images.form = "base64"
         THEN Yield(ClientMessage("finished", current.local_id, 100, NoError),
                    "yield_terminal")
         ELSE Yield(ClientMessage("error", current.local_id, 0,
                                  ErrMsg("No result images found")),
                    "yield_error")
    ELSE IF response.status = "FAILED"
    THEN Yield(ClientMessage("error", current.local_id, 0,
                             ErrMsg(extract_error(response, current.remote_id))),
               "yield_terminal")
    ELSE IF response.status = "CANCELLED"
    THEN Yield(ClientMessage("interrupted", current.local_id, 0, NoError),
               "yield_terminal")
    ELSE IF response.status = "TIMED_OUT"
    THEN Yield(ClientMessage("error", current.local_id, 0,
                             ErrMsg("job timed out")), "yield_terminal")
    ELSE NextIteration(done \cup {current.local_id})

\* the test of the while at line 149, then the status request of line 150 is
\* issued, or the job is resolved
LoopHead ==
    IF response.status \in ActiveStatus
    THEN /\ pc' = "status"
         /\ requests' = Append(requests,
               Request("status", [worker_id |-> current.worker_id,
                                  remote_id |-> current.remote_id]))
         /\ UNCHANGED << queues, waitq, current, started, done, response, log,
                         polled, assigned, raised, cost, cancelPosts >>
    ELSE Resolve

\* the consumer asks for the next message after progress(0)
ResumeProgress0 ==
    /\ pc = "yield_progress0"
    /\ LoopHead
    /\ UNCHANGED << queue, nextId, svars, user, enqueuedIn, netFailed,
                    interruptCalls, npolls >>

\* mutant of PollMessage: the fraction the service reports is not read
PollMessage_IgnoresFraction(job_id, r) ==
    IF r.status = "IN_QUEUE"
    THEN ClientMessage("queued", job_id, 0, NoError)
    ELSE ClientMessage("progress", job_id, DefaultProgress, NoError)

\* lines 152-159: the message for a response with status IN_QUEUE or
\* IN_PROGRESS; the fraction is 0.09 when the response reports none
PollMessage(job_id, r) ==
    IF r.status = "IN_QUEUE"
    THEN ClientMessage("queued", job_id, 0, NoError)
    ELSE ClientMessage("progress", job_id,
                       IF r.progress = NoProgress THEN DefaultProgress
                       ELSE r.progress, NoError)

\* await self._post(status/...) and lines 152-159
Status ==
    /\ pc = "status"
    /\ \/ \E r \in StatusResponses :
            /\ r.status \in ActiveStatus => npolls < MaxPolls
            /\ npolls' = IF r.status \in ActiveStatus THEN npolls + 1 ELSE npolls
            /\ response' = r
            /\ polled' = Append(polled, r)
            /\ IF r.status \in ActiveStatus
               THEN /\ log' = Append(log, PollMessage(current.local_id, r))
                    /\ pc' = "yield_poll"
               ELSE /\ log' = log
                    /\ pc' = "sleep"
            /\ UNCHANGED << user, netFailed, raised >>
       \/ /\ \E e \in NetworkErrors : NetworkFailure(e)
          /\ UNCHANGED << response, polled, npolls >>
    /\ UNCHANGED << queues, queue, nextId, svars, waitq, current, started,
                    done, enqueuedIn, cancelPosts, interruptCalls, assigned,
                    cost, requests >>

\* the consumer asks for the next message after queued or progress
ResumePoll ==
    /\ pc = "yield_poll"
    /\ pc' = "sleep"
    /\ UNCHANGED << queues, queue, nextId, svars, waitq, current, response,
                    user, log, started, done, enqueuedIn, polled, netFailed,
                    cancelPosts, interruptCalls, assigned, raised, cost,
                    requests, npolls >>

\* await asyncio.sleep(_poll_interval) returns
WakeSleep ==
    /\ pc = "sleep"
    /\ LoopHead
    /\ UNCHANGED << queue, nextId, svars, user, enqueuedIn, netFailed,
                    interruptCalls, npolls >>

\* await self._requests.download(url) and lines 226, 165-167
Download ==
    /\ pc = "download"
    /\ \/ /\ Yield(ClientMessage("finished", current.local_id, 100, NoError),
                   "yield_terminal")
          /\ UNCHANGED << user, netFailed >>
       \/ /\ \E e \in NetworkErrors : NetworkFailure(e)
          /\ UNCHANGED << queues, waitq, current, started, done, response,
                          polled, assigned, cost, requests, cancelPosts >>
    /\ UNCHANGED << queue, nextId, svars, enqueuedIn, interruptCalls, npolls >>

\* mutant of ResumeTerminal: no return after the last yield, the response is
\* resolved once more
ResumeTerminal_ResolvesAgain ==
    /\ pc = "yield_terminal"
    /\ Resolve
    /\ UNCHANGED << queue, nextId, svars, user, enqueuedIn, netFailed,
                    interruptCalls, npolls >>

\* the consumer asks for the next message after the last one of _process_job
ResumeTerminal ==
    /\ pc = "yield_terminal"
    /\ NextIteration(done \cup {current.local_id})
    /\ UNCHANGED << queue, nextId, svars, user, enqueuedIn, netFailed,
                    interruptCalls, npolls >>

\* the consumer asks for the next message after the error message of listen()
ResumeError ==
    /\ pc = "yield_error"
    /\ NextIteration(done \cup {current.local_id})
    /\ UNCHANGED << queue, nextId, svars, user, enqueuedIn, netFailed,
                    interruptCalls, npolls >>

\* mutant of Cancel: no finally, the slot keeps the job that was current
Cancel_KeepsCurrent ==
    /\ pc \notin {"init", "stopped"}
    /\ pc' = "stopped"
    /\ current' = current
    /\ waitq' = NoQueue
    /\ response' = NoResponse
    /\ log' = << >>
    /\ polled' = << >>
    /\ assigned' = 0
    /\ raised' = NoNetworkError
    /\ cost' = NoCost
    /\ requests' = << >>
    /\ cancelPosts' = << >>
    /\ queues' = [q \in {queue} |-> queues[q]]
    /\ UNCHANGED << queue, nextId, svars, user, started, done, enqueuedIn,
                    netFailed, interruptCalls, npolls >>

\* the task running listen() is cancelled, or the consumer closes the
\* generator: lines 131-134, where the finally empties the current-job slot
Cancel ==
    /\ pc \notin {"init", "stopped"}
    /\ pc' = "stopped"
    /\ current' = NoJob
    /\ waitq' = NoQueue
    /\ response' = NoResponse
    /\ log' = << >>
    /\ polled' = << >>
    /\ assigned' = 0
    /\ raised' = NoNetworkError
    /\ cost' = NoCost
    /\ requests' = << >>
    /\ cancelPosts' = << >>
    /\ queues' = [q \in {queue} |-> queues[q]]
    /\ UNCHANGED << queue, nextId, svars, user, started, done, enqueuedIn,
                    netFailed, interruptCalls, npolls >>

Next ==
    \/ \E work \in WorkInputs, front \in BOOLEAN : enqueue(work, front)
    \/ clear_queue
    \/ interrupt
    \/ Listen
    \/ ResumeConnected
    \/ Dequeue
    \/ UploadGet
    \/ UploadPut
    \/ Generate
    \/ ResumeProgress0
    \/ Status
    \/ ResumePoll
    \/ WakeSleep
    \/ Download
    \/ ResumeTerminal
    \/ ResumeError
    \/ Cancel

Spec == Init /\ [][Next]_vars

\* The event loop runs every coroutine that can run, the consumer keeps
\* asking listen() for messages, and every network call and sleep returns.
\* Nothing makes the caller call enqueue, clear_queue or interrupt, and nothing
\* makes anyone cancel listen().
FairSpec ==
    /\ Spec
    /\ WF_vars(Listen)
    /\ WF_vars(ResumeConnected)
    /\ WF_vars(Dequeue)
    /\ WF_vars(UploadGet)
    /\ WF_vars(UploadPut)
    /\ WF_vars(Generate)
    /\ WF_vars(ResumeProgress0)
    /\ WF_vars(Status)
    /\ WF_vars(ResumePoll)
    /\ WF_vars(WakeSleep)
    /\ WF_vars(Download)
    /\ WF_vars(ResumeTerminal)
    /\ WF_vars(ResumeError)

\* ------------------------------------------------ sign_in and authenticate
\* The caller runs one sign_in() or authenticate() at a time.

\* authenticate(token) up to the await of line 93
authenticate(t) ==
    /\ spc = "idle"
    /\ call' = Call("authenticate", t, token, user)
    /\ IF t = ""
       THEN /\ outcome' = Raised("ValueError", 0,
                                 "Authorization missing for cloud endpoint")
            /\ UNCHANGED << token, spc, request >>
       ELSE /\ token' = t
            /\ request' = AuthRequest("user", t)
            /\ spc' = "user_get"
            /\ outcome' = NoOutcome
    /\ UNCHANGED << user, auth_confirm, elapsed, shift, yielded, evars >>

\* mutant of UserGet: the token is not cleared when the get raises
UserGet_KeepsToken ==
    /\ spc = "user_get"
    /\ \/ \E d \in UserPayloads :
            /\ user' = [present |-> TRUE, credits |-> d.credits,
                        images_generated |-> d.images_generated]
            /\ outcome' = Returned("User", "")
            /\ UNCHANGED token
       \/ \E e \in AuthErrors :
            /\ token' = token
            /\ outcome' = Raised("NetworkError", e.status,
                                 IF e.status = 401 THEN LoginIncorrect
                                 ELSE e.message)
            /\ UNCHANGED user
    /\ spc' = "idle"
    /\ UNCHANGED << call, request, auth_confirm, elapsed, shift, yielded,
                    evars >>

\* await self._get("user") returns or raises: lines 93-104
UserGet ==
    /\ spc = "user_get"
    /\ \/ \E d \in UserPayloads :
            /\ user' = [present |-> TRUE, credits |-> d.credits,
                        images_generated |-> d.images_generated]
            /\ outcome' = Returned("User", "")
            /\ UNCHANGED token
       \/ \E e \in AuthErrors :
            /\ token' = ""
            /\ outcome' = Raised("NetworkError", e.status,
                                 IF e.status = 401 THEN LoginIncorrect
                                 ELSE e.message)
            /\ UNCHANGED user
    /\ spc' = "idle"
    /\ UNCHANGED << call, request, auth_confirm, elapsed, shift, yielded,
                    evars >>

\* sign_in() up to the await of line 66
sign_in ==
    /\ spc = "idle"
    /\ call' = Call("sign_in", "", token, user)
    /\ request' = AuthRequest("auth/initiate", token)
    /\ spc' = "initiate"
    /\ outcome' = NoOutcome
    /\ yielded' = << >>
    /\ auth_confirm' = NoConfirm
    /\ elapsed' = 0
    /\ shift' = 0
    /\ UNCHANGED << token, user, evars >>

\* a post of sign_in() raises NetworkError, which nothing in sign_in() catches
SignInNetworkError ==
    \E e \in AuthErrors :
        /\ outcome' = Raised("NetworkError", e.status, e.message)
        /\ spc' = "idle"
        /\ UNCHANGED << token, yielded, request >>

\* await self._post("auth/initiate", ...) and lines 68-70
Initiate ==
    /\ spc = "initiate"
    /\ \/ /\ yielded' = << SignInUrl >>
          /\ spc' = "yield_url"
          /\ UNCHANGED << token, outcome, request >>
       \/ SignInNetworkError
    /\ UNCHANGED << user, call, auth_confirm, elapsed, shift, evars >>

\* the caller asks for the next value after the url: line 72 sends the post
ResumeUrl ==
    /\ spc = "yield_url"
    /\ request' = AuthRequest("auth/confirm", token)
    /\ spc' = "confirm"
    /\ UNCHANGED << token, user, call, auth_confirm, elapsed, shift, yielded,
                    outcome, evars >>

\* lines 74-86 with auth_confirm = r, when datetime.now() - time is delta
SignInLoop(r, delta) ==
    IF ~r.has_status
    THEN /\ outcome' = Raised("KeyError", 0, "status")
         /\ spc' = "idle"
         /\ UNCHANGED << token, yielded, request >>
    ELSE IF r.status = "not-found"
    THEN IF seconds(delta) > SignInTimeout
         THEN /\ outcome' = Raised("TimeoutError", 0,
                                   "Sign-in attempt timed out after 5 minutes")
              /\ spc' = "idle"
              /\ UNCHANGED << token, yielded, request >>
         ELSE /\ spc' = "sleep"
              /\ UNCHANGED << token, yielded, outcome, request >>
    ELSE IF r.status = "authorized"
    THEN /\ token' = r.token
         /\ yielded' = Append(yielded, r.token)
         /\ outcome' = Returned("token", r.token)
         /\ spc' = "yield_token"
         /\ UNCHANGED request
    ELSE /\ outcome' = Raised("RuntimeError", 0, r.status)
         /\ spc' = "idle"
         /\ UNCHANGED << token, yielded, request >>

\* the post of line 72 returns or raises; line 73 reads the clock
FirstConfirm ==
    /\ spc = "confirm"
    /\ \/ \E r \in ConfirmResponses :
            /\ auth_confirm' = r
            /\ SignInLoop(r, 0)
       \/ /\ SignInNetworkError
          /\ UNCHANGED auth_confirm
    /\ elapsed' = 0
    /\ shift' = 0
    /\ UNCHANGED << user, call, evars >>

\* asyncio.sleep(2) returns and line 78 sends the post
Sleep ==
    /\ spc = "sleep"
    /\ elapsed' = elapsed + SleepSeconds
    /\ \E c \in ClockSteps :
          /\ c /= 0 => shift = 0
          /\ shift' = shift + c
    /\ request' = AuthRequest("auth/confirm", token)
    /\ spc' = "confirm_again"
    /\ UNCHANGED << token, user, call, auth_confirm, yielded, outcome, evars >>

\* the post of line 78 returns or raises; the while test of line 74 follows
NextConfirm ==
    /\ spc = "confirm_again"
    /\ \E d \in PostDurations :
          /\ elapsed' = elapsed + d
          /\ \/ \E r \in ConfirmResponses :
                  /\ auth_confirm' = r
                  /\ SignInLoop(r, elapsed + d + shift)
             \/ /\ SignInNetworkError
                /\ UNCHANGED auth_confirm
    /\ UNCHANGED << user, call, shift, evars >>

\* the caller asks for the next value after the token: sign_in() ends
ResumeToken ==
    /\ spc = "yield_token"
    /\ spc' = "idle"
    /\ UNCHANGED << token, user, call, auth_confirm, elapsed, shift, yielded,
                    outcome, request, evars >>

SessionNext ==
    \/ \E t \in Tokens \cup {""} : authenticate(t)
    \/ UserGet
    \/ sign_in
    \/ Initiate
    \/ ResumeUrl
    \/ FirstConfirm
    \/ Sleep
    \/ NextConfirm
    \/ ResumeToken

\* the client before listen() is started
SessionSpec == Init /\ [][SessionNext]_vars

\* ------------------------------------------------------------- the claims
Range(s) == {s[i] : i \in DOMAIN s}

QueuedIds(q) == {q.items[i].local_id : i \in DOMAIN q.items}

Jobs == 1..MaxJobs

TerminalsIn(lg) == SelectSeq(lg, LAMBDA m : m.event \in TerminalEvents)

ErrorsIn(lg) == SelectSeq(lg, LAMBDA m : m.event = "error")

\* the place of local id j in the order in which jobs became current
StartedAt(j) == CHOOSE i \in DOMAIN started : started[i] = j

\* C1: when the loop has finished processing a job it dequeued (the loop was
\* not cancelled meanwhile), the job has received at least one terminal
\* event (finished, error or interrupted) with its local id, whatever
\* terminal status the service reported.
C1_TerminalEventForEveryJob ==
    [][\A j \in done' \ done :
          \E i \in DOMAIN log :
              log[i].job_id = j /\ log[i].event \in TerminalEvents]_vars

\* C2: a job that is enqueued after a clear_queue() call, and that no later
\* clear_queue() discards, is eventually dequeued by the running listening
\* loop, also when clear_queue() came while the loop was waiting for a job
\* on the empty queue.
C2_EnqueuedAfterClearIsProcessed ==
    \A j \in Jobs :
        (enqueuedIn[j] = queue /\ queue > 0 /\ pc /= "stopped")
            ~> (j \in Range(started) \/ enqueuedIn[j] /= queue \/ pc = "stopped")

\* C3: a job that clear_queue() discarded (it was in the queue, not yet
\* current, when clear_queue() replaced the queue) never becomes the current
\* job, so no request is submitted and no event is emitted for it.
C3_ClearedJobsNeverProcessed ==
    [][\A j \in Jobs :
          (enqueuedIn[j] \notin {NoQueue, queue} /\ j \notin Range(started))
              => j \notin Range(started')]_vars

\* C4: when a network call made for the current job raises NetworkError, one
\* error message with that job's local id goes out and it is the job's only
\* error message; the handler leaves the loop running, and after that message
\* the loop takes the next job of the queue, or waits on the queue when it
\* is empty.
C4_NetworkErrorIsOneErrorAndLoopGoesOn ==
    [][/\ netFailed' /= netFailed =>
            /\ current /= NoJob
            /\ current' = current
            /\ netFailed' = netFailed \cup {current.local_id}
            /\ Len(log') = Len(log) + 1
            /\ SubSeq(log', 1, Len(log)) = log
            /\ log'[Len(log')].event = "error"
            /\ log'[Len(log')].job_id = current.local_id
            /\ pc' = "yield_error"
       /\ (current' /= NoJob /\ current'.local_id \in netFailed') =>
            /\ Len(ErrorsIn(log')) = 1
            /\ \A i \in DOMAIN log' : log'[i].job_id = current'.local_id
       /\ (pc = "yield_error" /\ current' /= current /\ pc' /= "stopped") =>
            IF queues[queue].items /= << >>
            THEN /\ current' = Head(queues[queue].items)
                 /\ started' = Append(started, current'.local_id)
                 /\ pc' \in {"upload_get", "generate", "yield_error"}
            ELSE /\ current' = NoJob
                 /\ pc' = "wait"
                 /\ waitq' = queue]_vars

\* C4 witness: job a had a network failure, and job b became current after it
\* and was accepted by the service
C4_Witness ==
    \E a \in netFailed, b \in Range(started) :
        /\ a \in done
        /\ a \in Range(started)
        /\ StartedAt(a) < StartedAt(b)
        /\ current.local_id = b
        /\ assigned /= 0

\* C5: at most one job is being processed: the jobs that became current and
\* whose iteration has not ended are none or the job in the current-job slot;
\* the slot is empty whenever the loop waits on the queue; no job becomes
\* current twice.
C5_AtMostOneCurrentJob ==
    LET unfinished == Range(started) \ done
    IN  /\ Cardinality(unfinished) <= 1
        /\ current /= NoJob => unfinished = {current.local_id}
        /\ pc = "wait" => current = NoJob /\ unfinished = {}
        /\ current = NoJob => pc \in {"init", "connected", "wait", "stopped"}
        /\ (current = NoJob /\ unfinished /= {}) => pc = "stopped"
        /\ Cardinality(Range(started)) = Len(started)

\* C5 witness: a second job is current, after calls of interrupt and
\* clear_queue
C5_Witness ==
    /\ Len(started) = 2
    /\ current /= NoJob
    /\ current.remote_id /= 0
    /\ started[1] \in done
    /\ interruptCalls > 0
    /\ queue > 0

\* C6: of two jobs put in the same queue, with no clear_queue between the two
\* enqueue calls, the one enqueued first becomes current first, whatever
\* front was.  Local ids are handed out in the order of the enqueue calls.
C6_FifoOrder ==
    \A a, b \in Jobs :
        (a < b /\ enqueuedIn[a] /= NoQueue /\ enqueuedIn[a] = enqueuedIn[b]
              /\ b \in Range(started))
            => (a \in Range(started) /\ StartedAt(a) < StartedAt(b))

\* C6 witness: two jobs of the same queue have both become current, and the
\* service accepted the second
C6_Witness ==
    /\ Len(started) = 2
    /\ enqueuedIn[1] = enqueuedIn[2]
    /\ started[1] \in done
    /\ assigned /= 0

\* the messages the poll loop sends for the status-poll responses of the
\* current job that are IN_QUEUE or IN_PROGRESS: queued, or progress with the
\* reported fraction, 0.09 when none is reported
ExpectedPollEvents ==
    LET active == SelectSeq(polled, LAMBDA r : r.status \in ActiveStatus)
        j == current.local_id
    IN  [i \in 1..Len(active) |->
            IF active[i].status = "IN_QUEUE"
            THEN ClientMessage("queued", j, 0, NoError)
            ELSE ClientMessage("progress", j,
                               IF active[i].progress = NoProgress THEN 9
                               ELSE active[i].progress, NoError)]

PollsEndCompleted ==
    /\ current /= NoJob
    /\ polled /= << >>
    /\ polled[Len(polled)].status = "COMPLETED"

\* the events of the current job are all out: listen() is at the yield of the
\* last one
Resolved == pc \in {"yield_terminal", "yield_error"}

\* C7 as stated: for status-poll responses that end in COMPLETED, the events
\* of the job are exactly one queued per IN_QUEUE response and one progress
\* per IN_PROGRESS response, in order, then one finished, and no other event.
C7_Original_EventsMirrorPolls ==
    (PollsEndCompleted /\ pc = "yield_terminal")
        => log = ExpectedPollEvents
                 \o << ClientMessage("finished", current.local_id, 100,
                                     NoError) >>

\* C7 as amended: for status-poll responses that end in COMPLETED, the events
\* of the job are exactly the progress(0) of the acceptance, then one queued
\* per IN_QUEUE response and one progress per IN_PROGRESS response, in order,
\* then, once the job is resolved, one last event: finished when the result
\* images were retrieved, error when retrieving them failed.
C7_EventsMirrorPollsAfterProgress0 ==
    PollsEndCompleted =>
        LET j == current.local_id
            before == << ClientMessage("progress", j, 0, NoError) >>
                      \o ExpectedPollEvents
            images == polled[Len(polled)].images
            retrieved ==
                /\ images.offsets = "list"
                /\ \/ images.form = "base64"
                   \/ images.form = "url" /\ j \notin netFailed
        IN  IF Resolved
            THEN /\ Len(log) = Len(before) + 1
                 /\ SubSeq(log, 1, Len(before)) = before
                 /\ IF retrieved
                    THEN /\ log[Len(log)] =
                                ClientMessage("finished", j, 100, NoError)
                         /\ pc = "yield_terminal"
                    ELSE /\ log[Len(log)].event = "error"
                         /\ log[Len(log)].job_id = j
                         /\ pc = "yield_error"
            ELSE log = before

\* C7 witness: a job polled IN_QUEUE, IN_PROGRESS(0.3), COMPLETED is resolved
\* with finished
C7_Witness ==
    /\ current /= NoJob
    /\ Len(polled) = 3
    /\ polled[1].status = "IN_QUEUE"
    /\ polled[2].status = "IN_PROGRESS"
    /\ polled[2].progress = 30
    /\ polled[3].status = "COMPLETED"
    /\ log[Len(log)].event = "finished"

\* C8: a call of interrupt() posts one cancel request, naming the remote id
\* the service assigned to the current job, when there is a current job and
\* the service has assigned it one; otherwise (no current job, or a current
\* job still being submitted) it posts nothing.  Nothing else posts a cancel
\* request.
C8_InterruptPostsIffRemoteId ==
    [][/\ interruptCalls' /= interruptCalls =>
            IF current /= NoJob /\ assigned /= 0
            THEN cancelPosts' = Append(cancelPosts, assigned)
            ELSE cancelPosts' = cancelPosts
       /\ (cancelPosts' /= cancelPosts /\ cancelPosts' /= << >>) =>
            interruptCalls' /= interruptCalls]_vars

\* C8 witness: interrupt() was called while a job with a remote id was
\* current, and the cancel request names that remote id
C8_Witness ==
    /\ interruptCalls > 0
    /\ current /= NoJob
    /\ assigned /= 0
    /\ cancelPosts = << assigned >>

\* what interrupt() must leave as it is: the queues, the current-job slot,
\* the place of the loop and everything the loop has received and sent
LocalState ==
    << queues, queue, nextId, pc, waitq, current, response, user, log, started,
       done, enqueuedIn, polled, netFailed, assigned, raised, cost, requests >>

\* C9 as stated: interrupt() changes no local state, and an interrupted event
\* is emitted for a job only after a status poll of it returned CANCELLED.
C9_Original_InterruptedOnlyAfterCancelledPoll ==
    [][/\ interruptCalls' /= interruptCalls => UNCHANGED LocalState
       /\ \A i \in DOMAIN log' :
            log'[i].event = "interrupted" =>
                \E k \in DOMAIN polled' : polled'[k].status = "CANCELLED"]_vars

\* C9 as amended: interrupt() changes no local state, and an interrupted
\* event is emitted only by the loop, for the current job, when the last
\* response it received for that job (the response to generate or to a
\* status poll) has the status CANCELLED.
C9_InterruptChangesNothingLocal ==
    [][/\ interruptCalls' /= interruptCalls => UNCHANGED LocalState
       /\ (log' /= log /\ log' /= << >>
              /\ log'[Len(log')].event = "interrupted") =>
            /\ interruptCalls' = interruptCalls
            /\ pc \in {"yield_progress0", "sleep"}
            /\ current /= NoJob
            /\ response.status = "CANCELLED"
            /\ log' = Append(log, ClientMessage("interrupted",
                                     current.local_id, 0, NoError))]_vars

\* C9 witness: interrupt() posted a cancel request for the current job, the
\* job was polled after that, and its interrupted event came after a poll
\* that returned CANCELLED
C9_Witness ==
    /\ current /= NoJob
    /\ cancelPosts = << assigned >>
    /\ polled /= << >>
    /\ polled[Len(polled)].status = "CANCELLED"
    /\ log[Len(log)].event = "interrupted"

\* the local ids in use anywhere in the client
UsedIds ==
    {j \in Jobs : enqueuedIn[j] /= NoQueue}
    \cup UNION {QueuedIds(queues[q]) : q \in DOMAIN queues}
    \cup Range(started)
    \cup {log[i].job_id : i \in DOMAIN log}
    \cup {current.local_id}

\* C10: in every state of the engine and with any number of queued jobs,
\* enqueue can complete at once, for every work and every front, and the
\* local id it returns is in use nowhere.  (The model hands out MaxJobs ids.)
C10_EnqueueNeverBlocks ==
    nextId <= MaxJobs =>
        /\ \A work \in WorkInputs, front \in BOOLEAN : ENABLED enqueue(work, front)
        /\ nextId \notin UsedIds

\* C10 witness: a job was enqueued and is in the queue while the engine
\* awaits a network call for the current job
C10_Witness ==
    /\ pc \in {"upload_get", "upload_put", "generate", "status", "download"}
    /\ current /= NoJob
    /\ queues[queue].items /= << >>
    /\ enqueuedIn[2] = queue

\* a 402 error whose data has both fields
WellFormed402(e) ==
    e.status = 402 /\ e.data.present /\ e.data.has_credits /\ e.data.has_cost

\* a 402 error whose data lacks a field
Malformed402(e) ==
    e.status = 402 /\ e.data.present /\ ~(e.data.has_credits /\ e.data.has_cost)

\* C11: when a network call for the current job raises a 402 error with data
\* {credits: c, cost: k}, the credits of the user become c and the error
\* message of the job names k and c; when a field of the data is missing, the
\* handler still yields the error message of the job, with the raw message of
\* the error, and after it the loop takes the next job or waits for one.
C11_PaymentRequiredError ==
    [][/\ (raised' /= raised /\ raised' /= NoNetworkError) =>
            LET e == raised'
                m == log'[Len(log')]
            IN  /\ Len(log') = Len(log) + 1
                /\ m.event = "error"
                /\ m.job_id = current.local_id
                /\ pc' = "yield_error"
                /\ WellFormed402(e) =>
                      /\ user'.credits = e.data.credits
                      /\ m.error.text = "Insufficient funds"
                      /\ m.error.cost = e.data.cost
                      /\ m.error.credits = e.data.credits
                /\ Malformed402(e) => m.error = ErrMsg(e.message)
       /\ (pc = "yield_error" /\ Malformed402(raised) /\ current' /= current
              /\ pc' /= "stopped") =>
            IF queues[queue].items /= << >>
            THEN /\ current' = Head(queues[queue].items)
                 /\ pc' \in {"upload_get", "generate"}
            ELSE current' = NoJob /\ pc' = "wait"]_vars

\* C11 witness: the first job, with the user at the initial credits, got a
\* well-formed 402 when it was submitted: the credits are those of the error
C11_Witness ==
    /\ pc = "yield_error"
    /\ WellFormed402(raised)
    /\ started = << current.local_id >>
    /\ assigned = 0
    /\ user.credits = raised.data.credits
    /\ user.credits /= InitialCredits
    /\ log[Len(log)].error.cost = raised.data.cost

\* the step in which the response to generate is read: the service accepted
\* the current job
Accepted == assigned = 0 /\ assigned' /= 0

\* C12: when the response to generate has a user snapshot, the cost is the
\* credits before minus the reported credits, or 0 when that is negative,
\* and the credits and the image counter of the user become the reported
\* ones; with no snapshot the cost is 0 and the user stays as it is.  In both
\* cases the job goes on: progress(0) is yielded.
C12_CostAndQuotaUpdate ==
    [][Accepted =>
          LET snapshot == response'.user
          IN  /\ IF snapshot.present
                 THEN /\ cost' = IF user.credits > snapshot.credits
                                 THEN user.credits - snapshot.credits
                                 ELSE 0
                      /\ user'.credits = snapshot.credits
                      /\ user'.images_generated = snapshot.images_generated
                      /\ user'.present
                 ELSE /\ cost' = 0
                      /\ user' = user
              /\ pc' = "yield_progress0"
              /\ log' = Append(log, ClientMessage("progress", current.local_id,
                                                  0, NoError))]_vars

\* C12 witness: the first job was accepted with a snapshot that reports more
\* credits than the user had: the cost is 0
C12_Witness ==
    /\ pc = "yield_progress0"
    /\ started = << current.local_id >>
    /\ response.user.present
    /\ response.user.credits > InitialCredits
    /\ user.credits = response.user.credits
    /\ cost = 0

\* the response the current job is resolved with is COMPLETED and its images
\* have no offsets, or an empty list of them
CompletedWithoutOffsets ==
    /\ current /= NoJob
    /\ response.status = "COMPLETED"
    /\ response.images.form \in ImageForms
    /\ response.images.offsets \in {"absent", "empty"}

DownloadRequests == SelectSeq(requests, LAMBDA r : r.op = "download")

\* C13: a COMPLETED result whose offsets are absent or an empty list, with
\* the url form as with the base64 form, is never retrieved: no download is
\* requested and no finished message goes out; once the job is resolved it
\* has exactly one error message, its last message, and after it the loop
\* takes the next job or waits for one.
C13_ResultWithoutOffsetsIsAnError ==
    [][/\ CompletedWithoutOffsets =>
            /\ pc \in {"yield_progress0", "sleep", "yield_error"}
            /\ DownloadRequests = << >>
            /\ \A i \in DOMAIN log : log[i].event /= "finished"
            /\ pc = "yield_error" =>
                  /\ Len(ErrorsIn(log)) = 1
                  /\ log[Len(log)] = ClientMessage("error", current.local_id, 0,
                                                   ErrMsg("invalid offsets"))
       /\ (CompletedWithoutOffsets /\ pc \in {"yield_progress0", "sleep"}
              /\ pc' /= pc /\ pc' /= "stopped") =>
            /\ pc' = "yield_error"
            /\ current' = current
       /\ (CompletedWithoutOffsets /\ pc = "yield_error" /\ current' /= current
              /\ pc' /= "stopped") =>
            IF queues[queue].items /= << >>
            THEN /\ current' = Head(queues[queue].items)
                 /\ pc' \in {"upload_get", "generate"}
            ELSE current' = NoJob /\ pc' = "wait"]_vars

\* C13 witness: a status poll returned COMPLETED with the url form and an
\* empty list of offsets, and the job is resolved
C13_Witness ==
    /\ CompletedWithoutOffsets
    /\ polled /= << >>
    /\ response.images = Images("url", "empty")
    /\ pc = "yield_error"

\* ceil(S/3)*4 < 3,500,000
FitsInline(S) == ((S + 2) \div 3) * 4 < 3500000

\* C14: the blob of the current job, of S bytes, goes inline as base64 in the
\* one generate request when ceil(S/3)*4 < 3,500,000; otherwise the requests
\* are, in this order, the request of an upload target, the PUT of the S raw
\* bytes to that target, and the generate request with the object reference.
\* In both cases the generate request has the offsets of the job.
C14_InlineOrUpload ==
    (current /= NoJob /\ requests /= << >>) =>
        LET work == current.work
            S == work.size
            generate == [op |-> "generate",
                         arg |-> [form |-> IF FitsInline(S) THEN "base64"
                                           ELSE "s3_object",
                                  data |-> IF FitsInline(S) THEN S
                                           ELSE UploadInfo.object,
                                  offsets |-> work.offsets]]
            upload == << [op |-> "upload", arg |-> ""],
                         [op |-> "put", arg |-> [url |-> UploadInfo.url,
                                                 data |-> S]],
                         generate >>
            before == IF FitsInline(S) THEN << generate >> ELSE upload
            n == IF Len(requests) < Len(before) THEN Len(requests)
                 ELSE Len(before)
        IN  /\ SubSeq(requests, 1, n) = SubSeq(before, 1, n)
            /\ \A i \in DOMAIN requests :
                  i > Len(before) => requests[i].op \in {"status", "download"}
            /\ pc = "upload_get" => Len(requests) = 1 /\ ~FitsInline(S)
            /\ pc = "upload_put" => Len(requests) = 2 /\ ~FitsInline(S)
            /\ pc = "generate" => Len(requests) = Len(before)
            /\ assigned /= 0 => Len(requests) >= Len(before)

\* C14 witness: a blob one byte over the largest that goes inline was
\* uploaded, and the generate request names the object
C14_Witness ==
    /\ pc = "generate"
    /\ current.work.size = 2624998
    /\ Len(requests) = 3
    /\ requests[2].op = "put"
    /\ requests[3].arg.form = "s3_object"
    /\ requests[3].arg.offsets = current.work.offsets

\* the current job is being resolved with a FAILED response
FailedResponse == current /= NoJob /\ response.status = "FAILED"

\* a FAILED response leads to exactly one error message, the last message of
\* the job, yielded by _process_job itself (no exception went to listen())
OneErrorForFailed ==
    FailedResponse =>
        /\ pc \in {"yield_progress0", "sleep", "yield_terminal"}
        /\ pc /= "yield_terminal" => ErrorsIn(log) = << >>
        /\ pc = "yield_terminal" =>
              /\ Len(ErrorsIn(log)) = 1
              /\ log[Len(log)].event = "error"
              /\ log[Len(log)].job_id = current.local_id

\* C15 as stated: a FAILED response gives exactly one error message and no
\* exception escapes; the message is the error_message when the error field
\* is a JSON object with an error_message, and the raw error string in every
\* other case of an error field.
C15_Original_FailedMessage ==
    /\ OneErrorForFailed
    /\ (FailedResponse /\ pc = "yield_terminal"
           /\ response.error.json /= "absent") =>
          log[Len(log)].error.text =
              IF response.error.json = "object_with_message"
              THEN response.error.error_message
              ELSE response.error.raw

\* C15 as amended: a FAILED response gives exactly one error message and no
\* exception escapes; the message is the error_message when the error field
\* is a JSON object with an error_message, the raw error string when the
\* field is not JSON or is JSON that is not an object, and the parsed object
\* itself when the field is a JSON object without error_message.
C15_FailedMessage ==
    /\ OneErrorForFailed
    /\ (FailedResponse /\ pc = "yield_terminal"
           /\ response.error.json /= "absent") =>
          log[Len(log)].error.text =
              CASE response.error.json = "object_with_message" ->
                       response.error.error_message
                [] response.error.json = "object" -> ParsedObject
                [] OTHER -> response.error.raw

\* C15 witness: a status poll returned FAILED with the error "boom", and the
\* error message of the job is "boom"
C15_Witness ==
    /\ FailedResponse
    /\ polled /= << >>
    /\ response.error.raw = "boom"
    /\ pc = "yield_terminal"
    /\ log[Len(log)].error.text = "boom"

\* the requests of the current job that poll its status
StatusRequests == SelectSeq(requests, LAMBDA r : r.op = "status")

\* the messages yielded for jobs (all but the "connected" of listen())
JobMessages == SelectSeq(log, LAMBDA m : m.event /= "connected")

\* C18: a job whose submission is accepted has progress(0) as the first
\* message with its local id, yielded when the remote id and the worker id
\* are assigned and the user update is applied, before any status request
\* and before any other message of the job; as long as the submission is not
\* accepted (and when it fails) the job has no progress message, no status
\* request and no poll.
C18_Progress0AfterAcceptance ==
    /\ assigned /= 0 =>
          /\ current /= NoJob
          /\ current.remote_id = assigned
          /\ current.worker_id = WorkerId
          /\ cost /= NoCost
          /\ JobMessages /= << >>
          /\ JobMessages[1] =
                 ClientMessage("progress", current.local_id, 0, NoError)
    /\ assigned = 0 =>
          /\ \A i \in 1..Len(JobMessages) : JobMessages[i].event = "error"
          /\ StatusRequests = << >>
          /\ polled = << >>

\* C18 witness: an accepted job was polled and got a second message after
\* its progress(0); and before that a submission failed with an error only
C18_Witness ==
    /\ assigned /= 0
    /\ done /= {}
    /\ polled /= << >>
    /\ Len(JobMessages) >= 2
    /\ JobMessages[1].event = "progress"
    /\ JobMessages[2].event = "queued"

\* C19: the step that cancels listen() yields no message, sends no request,
\* takes no job from the queue, leaves the queue as it is and empties the
\* current-job slot; from then on no message is yielded, no request is sent,
\* no job is started, the slot stays empty, and the jobs in the queue stay
\* there unless the client itself replaces the queue.
C19_CancelStopsProcessing ==
    [][ /\ (pc /= "stopped" /\ pc' = "stopped") =>
              /\ current' = NoJob
              /\ log' = << >>
              /\ requests' = << >>
              /\ started' = started
              /\ done' = done
              /\ queue' = queue
              /\ queues'[queue] = queues[queue]
        /\ pc = "stopped" =>
              /\ pc' = "stopped"
              /\ current = NoJob
              /\ current' = NoJob
              /\ log' = log
              /\ requests' = requests
              /\ cancelPosts' = cancelPosts
              /\ started' = started
              /\ done' = done
              /\ queue' = queue =>
                    Range(queues[queue].items) \subseteq
                        Range(queues'[queue].items) ]_vars

\* C19 witness: listen() was cancelled while its first job was in progress
\* and another job was waiting in the queue, which is still there
C19_Witness ==
    /\ pc = "stopped"
    /\ Len(started) = 1
    /\ done = {}
    /\ current = NoJob
    /\ Len(queues[queue].items) = 1

\* the job of the current iteration has its terminal message
HasTerminal == TerminalsIn(log) /= << >>

\* C20: a job has at most one terminal message (finished, error or
\* interrupted) and it is the last message with the job's id; once it is
\* yielded, no message with that id and no status request for the job follows:
\* the next step of the loop leaves the job, and no job becomes current twice.
\* This holds as well when the terminal message is the error of a failed
\* download after COMPLETED.
C20_AtMostOneTerminal ==
    [][ /\ Len(TerminalsIn(log')) <= 1
        /\ HasTerminal' =>
              /\ log'[Len(log')].event \in TerminalEvents
              /\ log'[Len(log')].job_id = current'.local_id
              /\ pc' \in {"yield_terminal", "yield_error"}
        /\ \A i, j \in DOMAIN started' :
              started'[i] = started'[j] => i = j
        /\ HasTerminal =>
              \/ /\ log' = log
                 /\ requests' = requests
                 /\ current' = current
              \/ /\ current'.local_id /= current.local_id
                 /\ current.local_id \in Range(started)
                 /\ \A i \in DOMAIN log' :
                       log'[i].job_id /= current.local_id
                 /\ \A i \in DOMAIN requests' :
                       requests'[i].op /= "status" ]_vars

\* C20 witness: the download of the result images failed after a COMPLETED
\* status, and the error of that failure is the one terminal message
C20_Witness ==
    /\ response.status = "COMPLETED"
    /\ response.images.form = "url"
    /\ current.local_id \in netFailed
    /\ pc = "yield_error"
    /\ Len(TerminalsIn(log)) = 1
    /\ log[Len(log)].event = "error"
    /\ requests /= << >>
    /\ requests[Len(requests)].op = "download"

\* C16: when authenticate(token) sends the get of the user, the token is
\* stored and is the bearer of the request; when the get raises a network
\* error, the call raises it, the stored token is empty afterwards, the user
\* is the one the call found, and the message is the user-facing one when the
\* status is 401 and the one of the error otherwise; when the get returns, the
\* call returns, the token is still the one passed in and the user is set;
\* once the user is set it stays set.
C16_Authenticate ==
    [][ /\ spc' = "user_get" =>
              /\ call'.arg /= ""
              /\ token' = call'.arg
              /\ request' = AuthRequest("user", call'.arg)
        /\ spc = "user_get" =>
              /\ spc' = "idle"
              /\ outcome'.kind \in {"raised", "returned"}
        /\ (spc = "user_get" /\ outcome'.kind = "raised") =>
              /\ outcome'.type = "NetworkError"
              /\ outcome'.code \in {e.status : e \in AuthErrors}
              /\ outcome'.text = IF outcome'.code = 401
                                 THEN LoginIncorrect ELSE "network"
              /\ token' = ""
              /\ user' = call.user0
        /\ (spc = "user_get" /\ outcome'.kind = "returned") =>
              /\ token' = call.arg
              /\ token' /= ""
              /\ user'.present
        /\ user.present => user'.present ]_vars

\* C16 witness: a client whose user was set by authenticate("t1") has called
\* authenticate("t2"), the get was answered with 401: the token is empty and
\* the user is the one of the first call
C16_Witness ==
    /\ spc = "idle"
    /\ call.op = "authenticate"
    /\ call.arg = "t2"
    /\ call.token0 = "t1"
    /\ call.user0.present
    /\ outcome = Raised("NetworkError", 401, LoginIncorrect)
    /\ token = ""
    /\ user = call.user0

\* a step that ends the sign_in() in progress: it raises, or yields the token
SignInEnds ==
    /\ call.op = "sign_in"
    /\ spc \in {"initiate", "confirm", "confirm_again"}
    /\ spc' \in {"idle", "yield_token"}

\* C17: sign_in() yields the url before it posts auth/confirm and sleeps only
\* while the status is not-found; it ends in one of three ways: it yields the
\* token and stores it, exactly when the status is authorized; it raises
\* TimeoutError, with the status not-found and more than 300 seconds passed
\* since the first response, and it does so as soon as a not-found response
\* comes after more than 300 seconds; it raises RuntimeError with the status
\* the service reported, for any other status.  The stored token is the one
\* sign_in() found when it ends in one of the two failures.
C17_SignInOutcomes ==
    [][ /\ (call'.op = "sign_in" /\ request'.op = "auth/confirm") =>
              /\ yielded' /= << >>
              /\ yielded'[1] = SignInUrl
        /\ spc' = "sleep" => auth_confirm'.status = "not-found"
        /\ SignInEnds =>
              \/ /\ outcome' = Returned("token", auth_confirm'.token)
                 /\ auth_confirm'.status = "authorized"
                 /\ token' = auth_confirm'.token
                 /\ yielded' = << SignInUrl, auth_confirm'.token >>
              \/ /\ outcome'.kind = "raised"
                 /\ outcome'.type = "TimeoutError"
                 /\ auth_confirm'.status = "not-found"
                 /\ elapsed' > SignInTimeout
                 /\ token' = call.token0
              \/ /\ outcome'.kind = "raised"
                 /\ outcome'.type = "RuntimeError"
                 /\ auth_confirm'.status \notin {"not-found", "authorized"}
                 /\ outcome'.text = auth_confirm'.status
                 /\ token' = call.token0
        /\ (spc \in {"confirm", "confirm_again"}
               /\ auth_confirm'.status = "authorized"
               /\ outcome'.type /= "NetworkError") =>
              outcome' = Returned("token", auth_confirm'.token)
        /\ (spc = "confirm_again"
               /\ auth_confirm'.status = "not-found"
               /\ outcome'.type /= "NetworkError"
               /\ elapsed' > SignInTimeout) =>
              outcome'.type = "TimeoutError" ]_vars

====
